---------------------------- MODULE Spec2Model ----------------------------
(***************************************************************************)
(* A model of the two programs of the repository:                          *)
(*                                                                         *)
(*   notebooks/intro/hello_quantum.py   run_game (the puzzle: three        *)
(*       selection controls wired to callbacks) and pauli_grid (the        *)
(*       circuit, its expectation map and the box-visibility filter);      *)
(*   tests/passes/toc.py                the table-of-contents validator.   *)
(*                                                                         *)
(* Python strings that the code takes apart are sequences: a Pauli string  *)
(* of its two characters, a url or a file name of its pieces ("/" and      *)
(* ".ipynb" are pieces); strings that the code only compares are TLA+      *)
(* strings.  Python index j is TLA+ index j+1.                             *)
(***************************************************************************)
EXTENDS Integers, Sequences, FiniteSets, TLC

VARIABLES
    puzzle,          \* run_game's arguments: initialize, success_condition, allowed_gates, vi, mode
    grid,            \* the pauli_grid object: y_boxes, mode, qc, rho
    initializer,     \* self.initializer
    program,         \* self.program
    required_gates,  \* the closure variable required_gates
    bloch,           \* the closure variable bloch[0]
    gate,            \* the gate control:   [options, value]
    qubit,           \* the qubit control:  [options, value]
    action,          \* the action control: [options, value]
    success,         \* the local `success` of the last given_action that reached get_success
    raised,          \* the exception the last event's callbacks ended with, or "none"
    lastEvent,       \* the last user event or call
    drawn,           \* pauli_grid: the boxes the last update_grid showed, and self.initial
    toc,             \* validator: the parsed manifest
    tree,            \* validator: the files of the working directory
    pc,              \* the position in run_game.__init__, or in __main__ of the validator
    todo,            \* validator: the course to check next, referenced_notebooks, notebooks left to visit
    outcome          \* validator: how the run ended

vars == <<puzzle, grid, initializer, program, required_gates, bloch, gate, qubit,
          action, success, raised, lastEvent, drawn, toc, tree, pc, todo, outcome>>

\* what the validator alone uses, and what run_game alone uses
tocData == <<toc, tree, todo, outcome>>
gameData == <<puzzle, initializer, program, required_gates, bloch, gate, qubit, action, success>>

-----------------------------------------------------------------------------
(* Bounds of the model.                                                    *)

\* The largest number of gates a modelled circuit holds (initializer and program together).
MaxGates == 4

-----------------------------------------------------------------------------
(* Numbers.  Every expectation value and probability the code computes for *)
(* a circuit over {x,y,z,h,sdg,cz,cx,swap,ry(+-pi/4),rx(+-pi/4)} has the   *)
(* form (a + b*sqrt(2)) / Scale, kept as the pair <<a, b>>.                *)

\* Python evaluates an expression once and keeps its value: Body is applied
\* to the value of v, and Table(f) is the function f with every entry computed.
Bind(v, Body(_)) == CHOOSE r \in {Body(x) : x \in {v}} : TRUE
Table(f) == f @@ <<>>

RECURSIVE Pow2(_)
Pow2(n) == IF n = 0 THEN 1 ELSE 2 * Pow2(n - 1)

\* 4 for the outcome probabilities, 2 and 3 for the averaging in get_rho, one
\* factor 2 for every rotation by pi/4 a circuit may hold.
Scale == 24 * Pow2(MaxGates)

Num(n) == <<n * Scale, 0>>
NAdd(u, v) == <<u[1] + v[1], u[2] + v[2]>>
NSub(u, v) == <<u[1] - v[1], u[2] - v[2]>>
NNeg(u) == <<0 - u[1], 0 - u[2]>>
NSign(s, u) == IF s < 0 THEN NNeg(u) ELSE u
NDouble(u) == <<2 * u[1], 2 * u[2]>>
NDiv(u, n) == <<u[1] \div n, u[2] \div n>>
\* u * cos(pi/4) = u * sqrt(2)/2:  (a + b*sqrt2) * sqrt2 / 2 = b + (a/2)*sqrt2
NCos45(u) == <<u[2], u[1] \div 2>>

\* q*sqrt(2) < c, for integers q and c
Sqrt2Less(q, c) ==
    IF q >= 0 THEN c > 0 /\ 2 * q * q < c * c
              ELSE c >= 0 \/ 2 * q * q > c * c

\* abs(u) < n/d as numbers:  -n*Scale < d*(a + b*sqrt2) < n*Scale
NAbsLess(u, n, d) ==
    /\ Sqrt2Less(d * u[2], n * Scale - d * u[1])
    /\ Sqrt2Less(0 - d * u[2], n * Scale + d * u[1])

-----------------------------------------------------------------------------
(* The circuit: a sequence of operations [name, qubits], the qubits being  *)
(* register indices 0 and 1 in the order of the call (control, target).    *)
(* Its state is known through the sixteen Pauli expectation values         *)
(* <P0 (x) P1>, a Pauli string being <<P0, P1>> with P0 on qr[0].          *)

Chars == {"I", "X", "Y", "Z"}
Paulis == {<<a, b>> : a \in Chars, b \in Chars}

Op(name, qs) == [name |-> name, qubits |-> qs]

\* |00>
Ket00 == [p \in Paulis |-> IF p[1] \in {"I", "Z"} /\ p[2] \in {"I", "Z"} THEN Num(1) ELSE Num(0)]

\* p with its character for register index j (0 or 1) replaced by c
WithChar(p, j, c) == IF j = 0 THEN <<c, p[2]>> ELSE <<p[1], c>>
CharAt(p, j) == p[j + 1]

\* A one-qubit Clifford gate maps <P> to s * <P'>: the pair <<s, P'>> for each P.
Clifford1(name, c) ==
    CASE name = "x" -> (IF c \in {"Y", "Z"} THEN <<-1, c>> ELSE <<1, c>>)
      [] name = "y" -> (IF c \in {"X", "Z"} THEN <<-1, c>> ELSE <<1, c>>)
      [] name = "z" -> (IF c \in {"X", "Y"} THEN <<-1, c>> ELSE <<1, c>>)
      [] name = "h" -> (CASE c = "X" -> <<1, "Z">> [] c = "Z" -> <<1, "X">>
                          [] c = "Y" -> <<-1, "Y">> [] OTHER -> <<1, "I">>)
      [] name = "sdg" -> (CASE c = "X" -> <<1, "Y">> [] c = "Y" -> <<-1, "X">>
                            [] OTHER -> <<1, c>>)

ApplyClifford1(e, name, j) ==
    [p \in Paulis |->
        LET m == Clifford1(name, CharAt(p, j))
        IN  NSign(m[1], e[WithChar(p, j, m[2])])]

\* A rotation by sgn*pi/4 in the plane of the axes (u, v):
\*   <u>' = cos*<u> + sgn*sin*<v>,   <v>' = cos*<v> - sgn*sin*<u>
\* ry: (u, v) = (X, Z);  rx: (u, v) = (Z, Y).
ApplyRotation(e, u, v, sgn, j) ==
    [p \in Paulis |->
        LET c == CharAt(p, j)
            eu == e[WithChar(p, j, u)]
            ev == e[WithChar(p, j, v)]
        IN  CASE c = u -> NCos45(NAdd(eu, NSign(sgn, ev)))
              [] c = v -> NCos45(NSub(ev, NSign(sgn, eu)))
              [] OTHER -> e[p]]

\* cx maps <Pc (x) Pt> to s * <Pc' (x) Pt'>: <<s, Pc', Pt'>> for each (Pc, Pt).
CxTable(c, t) ==
    CASE c = "I" /\ t = "Y" -> <<1, "Z", "Y">>
      [] c = "I" /\ t = "Z" -> <<1, "Z", "Z">>
      [] c = "X" /\ t = "I" -> <<1, "X", "X">>
      [] c = "X" /\ t = "X" -> <<1, "X", "I">>
      [] c = "X" /\ t = "Y" -> <<1, "Y", "Z">>
      [] c = "X" /\ t = "Z" -> <<-1, "Y", "Y">>
      [] c = "Y" /\ t = "I" -> <<1, "Y", "X">>
      [] c = "Y" /\ t = "X" -> <<1, "Y", "I">>
      [] c = "Y" /\ t = "Y" -> <<-1, "X", "Z">>
      [] c = "Y" /\ t = "Z" -> <<1, "X", "Y">>
      [] c = "Z" /\ t = "Y" -> <<1, "I", "Y">>
      [] c = "Z" /\ t = "Z" -> <<1, "I", "Z">>
      [] OTHER -> <<1, c, t>>

\* cz, symmetric in its two qubits
CzTable(c, t) ==
    CASE c = "I" /\ t = "X" -> <<1, "Z", "X">>
      [] c = "I" /\ t = "Y" -> <<1, "Z", "Y">>
      [] c = "X" /\ t = "I" -> <<1, "X", "Z">>
      [] c = "X" /\ t = "X" -> <<1, "Y", "Y">>
      [] c = "X" /\ t = "Y" -> <<-1, "Y", "X">>
      [] c = "X" /\ t = "Z" -> <<1, "X", "I">>
      [] c = "Y" /\ t = "I" -> <<1, "Y", "Z">>
      [] c = "Y" /\ t = "X" -> <<-1, "X", "Y">>
      [] c = "Y" /\ t = "Y" -> <<1, "X", "X">>
      [] c = "Y" /\ t = "Z" -> <<1, "Y", "I">>
      [] c = "Z" /\ t = "X" -> <<1, "I", "X">>
      [] c = "Z" /\ t = "Y" -> <<1, "I", "Y">>
      [] OTHER -> <<1, c, t>>

SwapTable(c, t) == <<1, t, c>>

TwoQubitTable(name, c, t) ==
    CASE name = "cx" -> CxTable(c, t)
      [] name = "cz" -> CzTable(c, t)
      [] name = "swap" -> SwapTable(c, t)

ApplyTwoQubit(e, name, ctl, tgt) ==
    [p \in Paulis |->
        LET m == TwoQubitTable(name, CharAt(p, ctl), CharAt(p, tgt))
        IN  NSign(m[1], e[WithChar(WithChar(p, ctl, m[2]), tgt, m[3])])]

\* QuantumCircuit.<name>(...) followed to the state it prepares
ApplyOp(e, op) ==
    CASE op.name \in {"x", "y", "z", "h", "sdg"} -> ApplyClifford1(e, op.name, op.qubits[1])
      [] op.name = "ry(pi/4)" -> ApplyRotation(e, "X", "Z", 1, op.qubits[1])
      [] op.name = "ry(-pi/4)" -> ApplyRotation(e, "X", "Z", -1, op.qubits[1])
      [] op.name = "rx(pi/4)" -> ApplyRotation(e, "Z", "Y", 1, op.qubits[1])
      [] op.name = "rx(-pi/4)" -> ApplyRotation(e, "Z", "Y", -1, op.qubits[1])
      [] op.name \in {"cx", "cz", "swap"} -> ApplyTwoQubit(e, op.name, op.qubits[1], op.qubits[2])

RECURSIVE Evolve(_, _)
Evolve(e0, qc) ==
    Bind(e0, LAMBDA e :
        IF qc = <<>> THEN e ELSE Evolve(Table(ApplyOp(e, Head(qc))), Tail(qc)))

\* Statevector.from_instruction(qc): the state the circuit prepares from |00>
FromInstruction(qc) == Evolve(Ket00, qc)

\* Statevector.probabilities_dict(): outcome string -> probability.  The string
\* is <<bit of qr[1], bit of qr[0]>> (Qiskit prints the highest qubit first).
Bits == {"0", "1"}
Strings == {<<a, b>> : a \in Bits, b \in Bits}
Sgn(b) == IF b = "1" THEN -1 ELSE 1
ProbabilitiesDict(e0) ==
    Bind(e0, LAMBDA e :
        Table([s \in Strings |->
            NDiv(NAdd(NAdd(Num(1), NSign(Sgn(s[2]), e[<<"Z", "I">>])),
                      NAdd(NSign(Sgn(s[1]), e[<<"I", "Z">>]),
                           NSign(Sgn(s[1]) * Sgn(s[2]), e[<<"Z", "Z">>]))), 4)]))

-----------------------------------------------------------------------------
(* pauli_grid                                                              *)

\* self.box: the Pauli strings that have a box on the grid
Box(y_boxes) ==
    IF y_boxes
    THEN Paulis \ {<<"I", "I">>}
    ELSE {<<"I", "Z">>, <<"I", "X">>, <<"Z", "I">>, <<"X", "I">>,
          <<"X", "Z">>, <<"Z", "Z">>, <<"Z", "X">>, <<"X", "X">>}

\* self.rho as __init__ leaves it
InitRho(y_boxes) ==
    [p \in Box(y_boxes) |->
        IF p \in {<<"Z", "I">>, <<"I", "Z">>, <<"Z", "Z">>} THEN Num(1) ELSE Num(0)]

\* pauli_grid.__init__
NewGrid(mode, y_boxes) ==
    [y_boxes |-> y_boxes, mode |-> mode, qc |-> <<>>, rho |-> InitRho(y_boxes)]

RECURSIVE NSum(_, _)
\* the sum of f[x] over the x of S
NSum(f, S) ==
    IF S = {} THEN <<0, 0>>
    ELSE LET x == CHOOSE y \in S : TRUE IN NAdd(f[x], NSum(f, S \ {x}))

Corr(y_boxes) == IF y_boxes THEN {<<a, b>> : a \in {"X", "Y", "Z"}, b \in {"X", "Y", "Z"}}
                            ELSE {<<a, b>> : a \in {"X", "Z"}, b \in {"X", "Z"}}
Ps(y_boxes) == IF y_boxes THEN {"X", "Y", "Z"} ELSE {"X", "Z"}

\* temp_qc: the circuit followed by the rotation of each qubit into its basis
BasisChange(c, j) ==
    CASE c = "X" -> <<Op("h", <<j>>)>>
      [] c = "Y" -> <<Op("sdg", <<j>>), Op("h", <<j>>)>>
      [] OTHER -> <<>>
TempQc(qc, basis) == qc \o BasisChange(basis[1], 0) \o BasisChange(basis[2], 1)

\* results[basis], backend None: the exact distribution of the outcome strings
Results(qc, basis) == ProbabilitiesDict(FromInstruction(TempQc(qc, basis)))

\* an average over two bases whatever the grid
AveragedOverTwo(y_boxes) == 2

\* the number of bases a one-qubit probability is averaged over
Averaged(y_boxes) == IF y_boxes THEN 3 ELSE 2

\* prob[pauli['I']] for the Pauli p on qubit j: over every basis that has p on
\* qubit j, the probability of a 1 on qubit j, each divided by 2 + y_boxes
SingleProb(y_boxes, results, j, p) ==
    LET partner == Ps(y_boxes)
        term == [pp \in partner |->
                    LET basis == WithChar(<<p, p>>, 1 - j, pp)
                        ones == {s \in Strings : s[2 - j] = "1"}
                    IN  NSum([s \in ones |-> NDiv(results[basis][s], Averaged(y_boxes))], ones)]
    IN  NSum(term, partner)

\* prob[basis] for a two-qubit observable: the outcomes whose two bits differ
CorrProb(results, basis) ==
    LET odd == {s \in Strings : s[1] # s[2]}
    IN  NSum([s \in odd |-> results[basis][s]], odd)

\* pauli_grid.get_rho, backend None: the new self.rho
GetRho(y_boxes, qc) ==
    Bind(Table([basis \in Corr(y_boxes) |-> Results(qc, basis)]), LAMBDA results :
        LET corr == Corr(y_boxes)
            singles == {WithChar(<<"I", "I">>, j, p) : j \in {0, 1}, p \in Ps(y_boxes)}
            prob == [pauli \in singles \cup corr |->
                        IF pauli \in corr
                        THEN CorrProb(results, pauli)
                        ELSE LET j == IF pauli[2] = "I" THEN 0 ELSE 1
                             IN  SingleProb(y_boxes, results, j, CharAt(pauli, j))]
        IN  Table([pauli \in DOMAIN prob |-> NSub(Num(1), NDouble(prob[pauli]))]))

\* the three filters of see_if_unhidden, as the loops compute them
RECURSIVE HiddenFilter(_, _)
HiddenFilter(hidden, pauli) ==
    IF hidden = <<>> THEN TRUE
    ELSE (CharAt(pauli, Head(hidden)) = "I") /\ HiddenFilter(Tail(hidden), pauli)

BitFilter(showQubit, pauli) ==
    IF showQubit = FALSE
    THEN \A j \in {0, 1} : CharAt(pauli, j) \in {"I", "Z"}
    ELSE TRUE

\* a third filter that wants both characters to be I
CorrFilterBothI(corr, pauli) ==
    IF corr = FALSE
    THEN (CharAt(pauli, 0) = "I") /\ (CharAt(pauli, 1) = "I")
    ELSE TRUE

CorrFilter(corr, pauli) ==
    IF corr = FALSE
    THEN (CharAt(pauli, 0) = "I") \/ (CharAt(pauli, 1) = "I")
    ELSE TRUE

\* update_grid.see_if_unhidden(pauli), rho being self.rho at the call
SeeIfUnhidden(rho, hidden, showQubit, corr, pauli) ==
    /\ HiddenFilter(hidden, pauli)
    /\ BitFilter(showQubit, pauli)
    /\ CorrFilter(corr, pauli)
    /\ pauli \in DOMAIN rho

\* The Pauli strings whose self.rho entry the bars of mode 'line' read
\* (add_line reads self.rho[pauli] before it looks at unhidden).
LineReads(y_boxes, blochArg) ==
    IF blochArg \in {"0", "1"}
    THEN ({<<a, b>> : a \in {"I", "X", "Z"}, b \in {"I", "X", "Z"}} \ {<<"I", "I">>})
         \cup (IF y_boxes THEN {p \in Paulis : "Y" \in {p[1], p[2]}} ELSE {})
    ELSE {p \in Box(y_boxes) : y_boxes \/ "Y" \notin {p[1], p[2]}}

None == "None"

\* the rho argument of update_grid: None, or a dictionary
NoRho == [none |-> TRUE, map |-> <<>>]
GivenRho(m) == [none |-> FALSE, map |-> m]

\* update_grid, "set the state": self.rho is the rho argument, or what
\* get_rho computes when the argument is None or empty
RhoInUse(g, rhoArg) ==
    IF rhoArg.none \/ DOMAIN rhoArg.map = {} THEN GetRho(g.y_boxes, g.qc) ELSE rhoArg.map

\* update_grid after "set the state": the circles and the bars are drawn from
\* self.rho = rho; the result is the grid and the drawing afterwards, and the
\* exception the call ends with ("none" when it returns)
Draw(g, d, rho, blochArg, hidden, showQubit, corr) ==
    LET unhidden == {pauli \in Box(g.y_boxes) : SeeIfUnhidden(rho, hidden, showQubit, corr, pauli)}
        keyError == g.mode = "line" /\ ~(LineReads(g.y_boxes, blochArg) \subseteq DOMAIN rho)
    IN  [grid |-> [g EXCEPT !.rho = rho],
         drawn |-> [unhidden |-> unhidden,
                    initial |-> IF keyError THEN d.initial ELSE FALSE],
         raised |-> IF keyError THEN "KeyError" ELSE "none"]

\* pauli_grid.update_grid(rho, bloch, hidden, qubit, corr)
UpdateGrid(g, d, rhoArg, blochArg, hidden, showQubit, corr) ==
    Bind(RhoInUse(g, rhoArg), LAMBDA rho : Draw(g, d, rho, blochArg, hidden, showQubit, corr))

\* the drawing before the first update_grid
NoDrawing == [unhidden |-> {}, initial |-> TRUE]

-----------------------------------------------------------------------------
(* run_game: the constructor's closures.  A callback is an operator from   *)
(* the state before it to the state after it; the state is the record      *)
(*   [grid, drawn, program, required_gates, bloch, gate, qubit, action,    *)
(*    success, raised].                                                    *)
(* When raised is not "none" an exception is travelling up the call stack  *)
(* and every statement that would have followed is skipped.                *)

QubitKeys == {"0", "1", "both"}

\* description['gate'][0], description['qubit'][0], description['action'][0]
ChooseGate == "Choose gate"
ChooseQubit(vi) == IF vi[2] THEN "Choose qubit" ELSE "Choose bit"
MakeItHappen == "Make it happen!"
ApplyOperation == "Apply operation"
NotRequired == "not required"
Success == "Success!"

RegisterIndex(q) == IF q = "0" THEN 0 ELSE 1
Other(q) == IF q = "0" THEN "1" ELSE "0"

\* a get_command that takes a gate name it does not know for z
GetCommandUnknownAsZ(names, gateName, q01) ==
    LET q == IF q01 = "both" THEN "1" ELSE q01
        known == IF gateName \in {"x", "y", "z", "h", "ry(pi/4)", "ry(-pi/4)", "rx(pi/4)",
                                  "rx(-pi/4)", "cz", "cx", "swap"}
                 THEN gateName ELSE "z"
    IN  IF known \in {"cz", "cx", "swap"}
        THEN [ok |-> TRUE,
              real |-> Op(known, <<RegisterIndex(Other(q)), RegisterIndex(q)>>),
              clean |-> Op(known, <<names[Other(q)], names[q]>>)]
        ELSE [ok |-> TRUE,
              real |-> Op(known, <<RegisterIndex(q)>>),
              clean |-> Op(known, <<names[q]>>)]

\* get_command(gate, qubit): [ok, real, clean], or the exception it raises.
\* real is the operation eval(command[0]) applies to grid.qc, clean the
\* recorded entry (the call with the display names as arguments).
GetCommand(names, gateName, q01) ==
    IF q01 \notin QubitKeys
    THEN [ok |-> FALSE, error |-> "KeyError"]
    ELSE LET q == IF q01 = "both" THEN "1" ELSE q01
         IN  IF gateName \in {"x", "y", "z", "h", "ry(pi/4)", "ry(-pi/4)", "rx(pi/4)", "rx(-pi/4)"}
             THEN [ok |-> TRUE,
                   real |-> Op(gateName, <<RegisterIndex(q)>>),
                   clean |-> Op(gateName, <<names[q]>>)]
             ELSE IF gateName \in {"cz", "cx", "swap"}
             THEN [ok |-> TRUE,
                   real |-> Op(gateName, <<RegisterIndex(Other(q)), RegisterIndex(q)>>),
                   clean |-> Op(gateName, <<names[Other(q)], names[q]>>)]
             ELSE [ok |-> FALSE, error |-> "UnboundLocalError"]

\* the loop over success_condition in get_success: `success and ...` reads
\* grid.rho[pauli] only while success is still True
RECURSIVE TargetsMet(_, _)
TargetsMet(rho, condition) ==
    IF condition = <<>> THEN "True"
    ELSE LET pauli == Head(condition)[1]
             target == Head(condition)[2]
         IN  IF pauli \notin DOMAIN rho THEN "KeyError"
             ELSE IF NAbsLess(NSub(Num(target), rho[pauli]), 1, 10)
                  THEN TargetsMet(rho, Tail(condition))
                  ELSE "False"

\* the loop over required_gates in get_success
CountersZero(required) ==
    \A q \in DOMAIN required : \A g \in DOMAIN required[q] : required[q][g] = 0

\* a get_success that looks at the targets only
GetSuccessTargetsOnly(rho, condition, required) ==
    TargetsMet(rho, condition)

\* get_success(required_gates) once grid.get_rho() has run: "True", "False" or "KeyError"
GetSuccess(rho, condition, required) ==
    LET met == TargetsMet(rho, condition)
    IN  IF met = "True" THEN (IF CountersZero(required) THEN "True" ELSE "False") ELSE met

\* a counter decremented whatever its value
CountDownUnguarded(required, q01, g) ==
    [required EXCEPT ![q01][g] = required[q01][g] - 1]

\* required_gates[q01][gate.value]: decremented while above zero
CountDown(required, q01, g) ==
    IF required[q01][g] > 0
    THEN [required EXCEPT ![q01][g] = required[q01][g] - 1]
    ELSE required

\* all_allowed_gates: 'bloch' first, then x y z h cz cx, then the others
GateOrder == <<"bloch", "x", "y", "z", "h", "cz", "cx",
               "swap", "ry(pi/4)", "ry(-pi/4)", "rx(pi/4)", "rx(-pi/4)", "NOT", "CNOT", "unbloch">>
AllAllowedGates(allowed) ==
    SelectSeq(GateOrder, LAMBDA g : \E q \in QubitKeys : g \in DOMAIN allowed[q])

\* qubit options that offer both qubits for every gate
AllowedQubitNamesBoth(allowed, names, g) == <<"1", "0">>

\* the qubit options given_gate shows for a gate that is not in allowed_gates['both']
AllowedQubitNames(allowed, names, g) ==
    SelectSeq(<<"1", "0">>, LAMBDA q : g \in DOMAIN allowed[q] \/ g \in DOMAIN allowed["both"])

RECURSIVE Observe(_, _), SetOptions(_, _, _), SetValue(_, _, _)
RECURSIVE GivenGate(_), GivenQubit(_), GivenAction(_)

\* gate.observe(given_gate), qubit.observe(given_qubit), action.observe(given_action):
\* the callback is called for every change of every trait of its control
Observe(w, s0) ==
    Bind(s0, LAMBDA s :
        IF s.raised # "none" THEN s
        ELSE CASE w = "gate" -> GivenGate(s)
               [] w = "qubit" -> GivenQubit(s)
               [] w = "action" -> GivenAction(s))

\* the value of the control becomes its first option, and the callback runs
ValueToFirst(w, s0) ==
    Bind(s0, LAMBDA s :
        IF s.raised # "none" \/ s[w].value = s[w].options[1] THEN s
        ELSE Observe(w, [s EXCEPT ![w].value = s[w].options[1]]))

\* The control selects its first option (index 0): the label changes, then
\* the value, then the index observers are told; the callback runs after
\* each, the first time still seeing the old value.
SelectFirst(w, s0) ==
    Bind(s0, LAMBDA s :
        IF s.raised # "none" THEN s
        ELSE IF s[w].value = s[w].options[1]
             THEN Observe(w, s)
             ELSE Observe(w, ValueToFirst(w, Observe(w, s))))

\* control.options = opts
SetOptions(w, opts, s0) ==
    Bind(s0, LAMBDA s :
        IF s.raised # "none" \/ s[w].options = opts THEN s
        ELSE Observe(w, SelectFirst(w, Observe(w, [s EXCEPT ![w].options = opts]))))

\* control.value = v
SetValue(w, v, s0) ==
    Bind(s0, LAMBDA s :
        IF s.raised # "none" \/ s[w].value = v THEN s
        ELSE IF \A i \in DOMAIN s[w].options : s[w].options[i] # v
             THEN [s EXCEPT !.raised = "TraitError"]
             ELSE Observe(w, Observe(w, Observe(w, [s EXCEPT ![w].value = v]))))

\* given_gate
GivenGate(s0) ==
    Bind(s0, LAMBDA s :
        IF s.gate.value = "" THEN s
        ELSE IF s.gate.value \in DOMAIN puzzle.allowed_gates["both"]
             THEN SetValue("qubit", NotRequired,
                           SetOptions("qubit", <<ChooseQubit(puzzle.vi), NotRequired>>, s))
             ELSE LET allowed_qubits == AllowedQubitNames(puzzle.allowed_gates, puzzle.qubit_names, s.gate.value)
                      allowed_qubit_names == [i \in DOMAIN allowed_qubits |-> puzzle.qubit_names[allowed_qubits[i]]]
                  IN  SetOptions("qubit", <<ChooseQubit(puzzle.vi)>> \o allowed_qubit_names, s))

\* given_qubit
GivenQubit(s0) ==
    Bind(s0, LAMBDA s :
        IF s.qubit.value \notin {"", ChooseQubit(puzzle.vi), Success}
        THEN SetOptions("action", <<MakeItHappen, ApplyOperation>>, s)
        ELSE s)

\* q01 of given_action: the three products of a name and a comparison, concatenated
Q01(names, v) ==
    CASE v = names["0"] /\ v = names["1"] -> "01"
      [] v = names["0"] -> "0"
      [] v = names["1"] -> "1"
      [] v = NotRequired -> "both"
      [] OTHER -> ""

\* q_gate of given_action: the bit gates are translated to qubit gates
QGate(v) ==
    CASE v = "NOT" -> "x"
      [] v = "CNOT" -> "cx"
      [] OTHER -> v

\* given_action, lines 249-254: the bloch toggle, or eval(command[0]) and
\* self.program.append(command[1])
ApplyCommand(s, q_gate, q01) ==
    IF q_gate = "bloch"
    THEN [s EXCEPT !.bloch = IF q01 # s.bloch THEN q01 ELSE None]
    ELSE Bind(GetCommand(puzzle.qubit_names, q_gate, q01), LAMBDA command :
            IF ~command.ok
            THEN [s EXCEPT !.raised = command.error]
            ELSE [s EXCEPT !.grid.qc = Append(s.grid.qc, command.real),
                           !.program = Append(s.program, command.clean)])

\* given_action, lines 255-256: the required-gate counter
CountUse(s0, g, q01) ==
    Bind(s0, LAMBDA s :
        IF s.raised # "none" THEN s
        ELSE IF q01 \notin DOMAIN s.required_gates \/ g \notin DOMAIN s.required_gates[q01]
             THEN [s EXCEPT !.raised = "KeyError"]
             ELSE [s EXCEPT !.required_gates = CountDown(s.required_gates, q01, g)])

\* given_action, line 258:
\* grid.update_grid(bloch=bloch[0], hidden=vi[0], qubit=vi[1], corr=vi[2], ...)
Redraw(s0) ==
    Bind(s0, LAMBDA s :
        IF s.raised # "none" THEN s
        ELSE Bind(UpdateGrid(s.grid, s.drawn, NoRho, s.bloch, puzzle.vi[1], puzzle.vi[2], puzzle.vi[3]),
                  LAMBDA u : [s EXCEPT !.grid = u.grid, !.drawn = u.drawn, !.raised = u.raised]))

\* given_action, lines 238-258: the chosen operation is applied
ApplyChosen(s) ==
    Redraw(CountUse(ApplyCommand(s, QGate(s.gate.value), Q01(puzzle.qubit_names, s.qubit.value)),
                    s.gate.value, Q01(puzzle.qubit_names, s.qubit.value)))

\* a declaration of success that resets the controls for a next choice
DeclareSuccessAndGoOn(s) ==
    SetOptions("action", <<"">>,
        SetOptions("qubit", <<"">>,
            SetValue("gate", ChooseGate, s)))

\* given_action, lines 261-265: success is declared
DeclareSuccess(s) ==
    SetOptions("action", <<Success>>,
        SetOptions("qubit", <<Success>>,
            SetOptions("gate", <<Success>>, s)))

\* given_action, lines 267-269: the controls are reset for the next choice
ResetControls(s) ==
    SetOptions("action", <<"">>,
        SetOptions("qubit", <<"">>,
            SetValue("gate", ChooseGate, s)))

\* given_action, lines 260-269: get_success (grid.get_rho(), then the two
\* loops) and the branch on its result
CheckSuccess(s0) ==
    Bind(s0, LAMBDA s :
        IF s.raised # "none" THEN s
        ELSE Bind(GetRho(s.grid.y_boxes, s.grid.qc), LAMBDA rho :
             Bind(GetSuccess(rho, puzzle.success_condition, s.required_gates), LAMBDA result :
                IF result = "KeyError"
                THEN [s EXCEPT !.grid.rho = rho, !.raised = "KeyError"]
                ELSE IF result = "True"
                THEN DeclareSuccess([s EXCEPT !.grid.rho = rho, !.success = TRUE])
                ELSE ResetControls([s EXCEPT !.grid.rho = rho, !.success = FALSE]))))

\* given_action
GivenAction(s0) ==
    Bind(s0, LAMBDA s :
        IF s.action.value \in {"", MakeItHappen} THEN s
        ELSE IF s.action.value = ApplyOperation
                /\ s.qubit.value \notin {"", ChooseQubit(puzzle.vi), Success}
             THEN CheckSuccess(ApplyChosen(s))
             ELSE CheckSuccess(s))

\* the value of the control becomes `label`, and the callback runs
ValueTo(w, label, s0) ==
    Bind(s0, LAMBDA s :
        IF s.raised # "none" THEN s
        ELSE IF \A i \in DOMAIN s[w].options : s[w].options[i] # label
             THEN [s EXCEPT !.raised = "TraitError"]
             ELSE Observe(w, [s EXCEPT ![w].value = label]))

\* The user presses the button `label` of control w: the front end sends the
\* new index; the label changes, then the value, then the index observers
\* are told, the callback running after each.
Press(w, label, s0) ==
    Bind(s0, LAMBDA s :
        IF s[w].value = label THEN s
        ELSE Observe(w, ValueTo(w, label, Observe(w, s))))

\* '[' in name, and name is a Python identifier, for the display names in use
HasBracket(name) == name \in {"q[0]", "q[1]"}
IsIdentifier(name) == name \in {"a", "b"}

\* get_circuit, lines 281-283: the display names are bound to q[0] and q[1]
\* by exec when the name of qubit '0' has no '['; `result.bound` maps the
\* names bound to their index in the register
BindNames(names) ==
    IF HasBracket(names["0"])
    THEN [raised |-> "none", bound |-> <<>>]
    ELSE IF ~IsIdentifier(names["0"])
    THEN [raised |-> "SyntaxError", bound |-> <<>>]
    ELSE IF HasBracket(names["1"])
    THEN [raised |-> "TypeError", bound |-> <<>>]
    ELSE IF ~IsIdentifier(names["1"])
    THEN [raised |-> "SyntaxError", bound |-> <<>>]
    ELSE [raised |-> "none", bound |-> (names["0"] :> 0) @@ (names["1"] :> 1)]

\* what the expression `name` evaluates to inside get_circuit, where q is the
\* register of the new circuit: an index of the register, or -1 for a NameError
Resolve(bound, name) ==
    CASE name = "q[0]" -> 0
      [] name = "q[1]" -> 1
      [] name \in DOMAIN bound -> bound[name]
      [] OTHER -> -1

\* eval(line) for each line in turn, on the circuit qc
RECURSIVE Replay(_, _, _)
Replay(bound, lines, qc) ==
    IF lines = <<>> THEN [raised |-> "none", qc |-> qc]
    ELSE LET line == Head(lines)
             qubits == [i \in DOMAIN line.qubits |-> Resolve(bound, line.qubits[i])]
         IN  IF \E i \in DOMAIN qubits : qubits[i] = -1
             THEN [raised |-> "NameError", qc |-> qc]
             ELSE Replay(bound, Tail(lines), Append(qc, Op(line.name, qubits)))

\* get_circuit(use_initializer)
GetCircuit(names, initializerLines, programLines, use_initializer) ==
    Bind(BindNames(names), LAMBDA scope :
        IF scope.raised # "none" THEN [raised |-> scope.raised, qc |-> <<>>]
        ELSE Replay(scope.bound,
                    (IF use_initializer THEN initializerLines ELSE <<>>) \o programLines,
                    <<>>))

-----------------------------------------------------------------------------
(* The puzzles the model is run on.                                        *)

DefaultNames == ("0" :> "q[0]") @@ ("1" :> "q[1]")
NoGates == <<>>

ZI == <<"Z", "I">>
IZ == <<"I", "Z">>
ZZ == <<"Z", "Z">>
XI == <<"X", "I">>
XX == <<"X", "X">>
YY == <<"Y", "Y">>

\* one qubit shown, a gate that must be used exactly three times
PuzzleThreeX ==
    [initialize |-> <<>>,
     success_condition |-> << <<ZI, -1>> >>,
     allowed_gates |-> ("0" :> ("x" :> 3)) @@ ("1" :> NoGates) @@ ("both" :> NoGates),
     vi |-> << <<1>>, FALSE, FALSE >>,
     qubit_names |-> DefaultNames,
     mode |-> "circle"]

\* two qubits, a symmetric gate, the Bloch toggle, a gate to be used once
PuzzleBell ==
    [initialize |-> << <<"h", "0">> >>,
     success_condition |-> << <<XX, 1>>, <<ZZ, 1>> >>,
     allowed_gates |-> ("0" :> (("bloch" :> 0) @@ ("h" :> 0)))
                       @@ ("1" :> ("cx" :> 1))
                       @@ ("both" :> ("cz" :> 0)),
     vi |-> << <<>>, TRUE, TRUE >>,
     qubit_names |-> DefaultNames,
     mode |-> "line"]

\* a bit puzzle: NOT and CNOT, display names a and b
PuzzleBits ==
    [initialize |-> << <<"x", "0">> >>,
     success_condition |-> << <<ZI, -1>>, <<IZ, -1>> >>,
     allowed_gates |-> ("0" :> ("NOT" :> 0))
                       @@ ("1" :> (("NOT" :> 0) @@ ("CNOT" :> 0)))
                       @@ ("both" :> NoGates),
     vi |-> << <<>>, FALSE, TRUE >>,
     qubit_names |-> ("0" :> "a") @@ ("1" :> "b"),
     mode |-> "line"]

\* rotations by pi/4, the grid with the Y boxes
PuzzleRotate ==
    [initialize |-> <<>>,
     success_condition |-> << <<XI, 1>> >>,
     allowed_gates |-> ("0" :> (("ry(pi/4)" :> 2) @@ ("rx(-pi/4)" :> 0)))
                       @@ ("1" :> NoGates) @@ ("both" :> NoGates),
     vi |-> << <<1>>, TRUE, FALSE >>,
     qubit_names |-> DefaultNames,
     mode |-> "y"]

\* a target on a Pauli string the grid has no box for, and the 'unbloch'
\* operation the docstring of run_game names for 'both'
PuzzleNoBox ==
    [initialize |-> <<>>,
     success_condition |-> << <<YY, 1>> >>,
     allowed_gates |-> ("0" :> ("x" :> 1)) @@ ("1" :> NoGates) @@ ("both" :> ("unbloch" :> 0)),
     vi |-> << <<>>, TRUE, TRUE >>,
     qubit_names |-> DefaultNames,
     mode |-> "line"]

\* an initializer with a gate name outside get_command's vocabulary
PuzzleBadInitializer ==
    [initialize |-> << <<"h", "0">>, <<"t", "1">>, <<"x", "1">> >>,
     success_condition |-> << <<ZI, 1>> >>,
     allowed_gates |-> ("0" :> ("x" :> 0)) @@ ("1" :> NoGates) @@ ("both" :> NoGates),
     vi |-> << <<>>, TRUE, TRUE >>,
     qubit_names |-> DefaultNames,
     mode |-> "line"]

\* a bit puzzle whose display names are phrases
PuzzleWords ==
    [initialize |-> << <<"x", "0">> >>,
     success_condition |-> << <<ZI, 1>>, <<IZ, -1>> >>,
     allowed_gates |-> ("0" :> ("NOT" :> 0)) @@ ("1" :> ("NOT" :> 1)) @@ ("both" :> NoGates),
     vi |-> << <<>>, FALSE, FALSE >>,
     qubit_names |-> ("0" :> "the bit on the left") @@ ("1" :> "the bit on the right"),
     mode |-> "line"]

Puzzles == {PuzzleThreeX, PuzzleBell, PuzzleBits, PuzzleRotate, PuzzleNoBox, PuzzleBadInitializer,
            PuzzleWords}

-----------------------------------------------------------------------------
(* run_game as a state machine.                                            *)

NotInUse == "not in use"
NoControl == [options |-> <<"">>, value |-> ""]

State == [grid |-> grid, drawn |-> drawn, program |-> program,
          required_gates |-> required_gates, bloch |-> bloch,
          gate |-> gate, qubit |-> qubit, action |-> action,
          success |-> success, raised |-> "none"]

Install(s) ==
    /\ grid' = s.grid
    /\ drawn' = s.drawn
    /\ program' = s.program
    /\ required_gates' = s.required_gates
    /\ bloch' = s.bloch
    /\ gate' = s.gate
    /\ qubit' = s.qubit
    /\ action' = s.action
    /\ success' = s.success
    /\ raised' = s.raised

\* run_game.__init__ up to the initializer loop
InitGame ==
    /\ puzzle \in Puzzles
    /\ grid = IF puzzle.mode = "y" THEN NewGrid("line", TRUE) ELSE NewGrid(puzzle.mode, FALSE)
    /\ drawn = NoDrawing
    /\ initializer = <<>>
    /\ program = <<>>
    /\ required_gates = puzzle.allowed_gates
    /\ bloch = None
    /\ gate = NoControl
    /\ qubit = NoControl
    /\ action = NoControl
    /\ success = FALSE
    /\ raised = "none"
    /\ lastEvent = <<"__init__">>
    /\ pc = "initialize"
    /\ toc = NotInUse /\ tree = NotInUse /\ todo = NotInUse /\ outcome = NotInUse

\* one turn of the loop `for gate in initialize`
InitializerStep ==
    /\ pc = "initialize"
    /\ Len(initializer) < Len(puzzle.initialize)
    /\ LET entry == puzzle.initialize[Len(initializer) + 1]
           command == GetCommand(puzzle.qubit_names, entry[1], entry[2])
       IN  IF command.ok
           THEN /\ grid' = [grid EXCEPT !.qc = Append(grid.qc, command.real)]
                /\ initializer' = Append(initializer, command.clean)
                /\ UNCHANGED <<pc, raised>>
           ELSE /\ pc' = "construction failed"
                /\ raised' = command.error
                /\ UNCHANGED <<grid, initializer>>
    /\ lastEvent' = <<"initialize", Len(initializer) + 1>>
    /\ UNCHANGED <<puzzle, program, required_gates, bloch, gate, qubit, action, success>>
    /\ UNCHANGED <<drawn, tocData>>

\* run_game.__init__ after the loop: required_gates, the first update_grid,
\* the three controls and their observers
Construct ==
    /\ pc = "initialize"
    /\ Len(initializer) = Len(puzzle.initialize)
    /\ \E u \in {UpdateGrid(grid, drawn, NoRho, bloch, puzzle.vi[1], puzzle.vi[2], puzzle.vi[3])} :
           /\ grid' = u.grid
           /\ drawn' = u.drawn
           /\ raised' = u.raised
           /\ pc' = IF u.raised = "none" THEN "playing" ELSE "construction failed"
    /\ required_gates' = puzzle.allowed_gates
    /\ gate' = [options |-> <<ChooseGate>> \o AllAllowedGates(puzzle.allowed_gates),
                value |-> ChooseGate]
    /\ qubit' = NoControl
    /\ action' = NoControl
    /\ program' = <<>>
    /\ lastEvent' = <<"__init__">>
    /\ UNCHANGED <<puzzle, initializer, bloch, success, tocData>>

\* the options the user can press: the buttons of the control
Buttons(w) == {w.options[i] : i \in DOMAIN w.options}

\* The user presses a button of the gate control.
PressGate ==
    /\ pc = "playing"
    /\ \E label \in Buttons(gate) :
        /\ \E s \in {Press("gate", label, State)} : Install(s)
        /\ lastEvent' = <<"gate", label>>
    /\ UNCHANGED <<puzzle, initializer, pc, tocData>>

\* The user presses a button of the qubit control.
PressQubit ==
    /\ pc = "playing"
    /\ \E label \in Buttons(qubit) :
        /\ \E s \in {Press("qubit", label, State)} : Install(s)
        /\ lastEvent' = <<"qubit", label>>
    /\ UNCHANGED <<puzzle, initializer, pc, tocData>>

\* The user presses a button of the action control.  The circuit is kept
\* within MaxGates operations.
PressAction ==
    /\ pc = "playing"
    /\ Len(grid.qc) < MaxGates
    /\ \E label \in Buttons(action) :
        /\ \E s \in {Press("action", label, State)} : Install(s)
        /\ lastEvent' = <<"action", label>>
    /\ UNCHANGED <<puzzle, initializer, pc, tocData>>

Next ==
    \/ InitializerStep
    \/ Construct
    \/ PressGate
    \/ PressQubit
    \/ PressAction

Init == InitGame

Spec == Init /\ [][Next]_vars

-----------------------------------------------------------------------------
(* pauli_grid used on its own: a grid is constructed, gates are added to   *)
(* grid.qc, and get_rho and update_grid are called with arguments of the   *)
(* caller's choice.  lastEvent holds the last call and its arguments.      *)

MaxGridGates == 1

\* the gates the caller adds to grid.qc
GridOps == {Op("h", <<0>>), Op("cx", <<0, 1>>)}

\* the dictionaries the caller passes as rho: none, an empty one, the eight
\* keys the docstring of update_grid lists with |00>'s values, and one with
\* the three Z keys only
DocumentedRho == InitRho(FALSE)
ZOnlyRho == [p \in {ZI, IZ, ZZ} |-> Num(1)]
RhoArgs == {NoRho, GivenRho(<<>>), GivenRho(DocumentedRho), GivenRho(ZOnlyRho)}

Hiddens == {<<>>, <<0>>, <<1>>, <<0, 1>>}

\* grid = pauli_grid(mode=..., y_boxes=...)
InitGrid ==
    /\ \E mode \in {"circle", "line"}, y_boxes \in BOOLEAN : grid = NewGrid(mode, y_boxes)
    /\ drawn = NoDrawing
    /\ raised = "none"
    /\ lastEvent = <<"pauli_grid">>
    /\ pc = "grid"
    /\ puzzle = NotInUse /\ initializer = NotInUse /\ program = NotInUse
    /\ required_gates = NotInUse /\ bloch = NotInUse /\ success = NotInUse
    /\ gate = NotInUse /\ qubit = NotInUse /\ action = NotInUse
    /\ toc = NotInUse /\ tree = NotInUse /\ todo = NotInUse /\ outcome = NotInUse

\* a gate is added to grid.qc
GridGate ==
    /\ pc = "grid"
    /\ Len(grid.qc) < MaxGridGates
    /\ \E op \in GridOps :
        /\ grid' = [grid EXCEPT !.qc = Append(grid.qc, op)]
        /\ lastEvent' = <<"qc", op>>
    /\ raised' = "none"
    /\ UNCHANGED <<drawn, pc, gameData, tocData>>

\* grid.get_rho()
GridGetRho ==
    /\ pc = "grid"
    /\ grid' = [grid EXCEPT !.rho = GetRho(grid.y_boxes, grid.qc)]
    /\ lastEvent' = <<"get_rho">>
    /\ raised' = "none"
    /\ UNCHANGED <<drawn, pc, gameData, tocData>>

\* grid.update_grid(rho=..., hidden=..., qubit=..., corr=...)
GridUpdate ==
    /\ pc = "grid"
    /\ \E rhoArg \in RhoArgs : \E rho \in {RhoInUse(grid, rhoArg)} :
       \E hidden \in Hiddens, showQubit \in BOOLEAN, corr \in BOOLEAN :
        /\ \E u \in {Draw(grid, drawn, rho, None, hidden, showQubit, corr)} :
            /\ grid' = u.grid
            /\ drawn' = u.drawn
            /\ raised' = u.raised
        /\ lastEvent' = <<"update_grid", [rho |-> rhoArg, hidden |-> hidden,
                                          qubit |-> showQubit, corr |-> corr]>>
    /\ UNCHANGED <<pc, gameData, tocData>>

NextGrid ==
    \/ GridGate
    \/ GridGetRho
    \/ GridUpdate

SpecGrid == InitGrid /\ [][NextGrid]_vars

-----------------------------------------------------------------------------
(* tests/passes/toc.py.  A string is a sequence of pieces ("/" is a piece, *)
(* so is ".ipynb"); a Path is a sequence of segments, each the sequence of *)
(* pieces of one name.  The file tree is the set of the Paths of its files *)
(* below the working directory; a directory exists when a file lies in it. *)

Slash == "/"

RECURSIVE LStrip(_)
LStrip(str) == IF str # <<>> /\ Head(str) = Slash THEN LStrip(Tail(str)) ELSE str
RECURSIVE RStrip(_)
RStrip(str) ==
    IF str # <<>> /\ str[Len(str)] = Slash THEN RStrip(SubSeq(str, 1, Len(str) - 1)) ELSE str
\* str.strip('/')
Strip(str) == RStrip(LStrip(str))

\* str.split('/'): the segments between the slashes
RECURSIVE Split(_)
Split(str) ==
    IF \A i \in DOMAIN str : str[i] # Slash THEN <<str>>
    ELSE LET k == CHOOSE i \in DOMAIN str : str[i] = Slash /\ \A j \in 1..(i - 1) : str[j] # Slash
         IN  <<SubSeq(str, 1, k - 1)>> \o Split(SubSeq(str, k + 1, Len(str)))

\* Path(str): empty segments and '.' segments are dropped, '..' is kept
PathOf(str) == SelectSeq(Split(str), LAMBDA seg : seg # <<>> /\ seg # <<".">>)

\* NOTEBOOKS_PATH = Path('./notebooks'), TOC_PATH = NOTEBOOKS_PATH / Path('toc.yaml')
NOTEBOOKS_PATH == PathOf(<<".", Slash, "notebooks">>)
TOC_PATH == NOTEBOOKS_PATH \o PathOf(<<"toc", ".yaml">>)

\* the directories of a tree: the proper prefixes of its files
Dirs(files) == UNION {{SubSeq(f, 1, n) : n \in 0..(Len(f) - 1)} : f \in files}

\* the place in the tree a Path leads to from the working directory, as the
\* operating system resolves it: <<"nowhere">> when a segment on the way is
\* not a directory or the last one is neither a file nor a directory
RECURSIVE Walk(_, _, _)
Walk(files, at, rest) ==
    IF rest = <<>> THEN <<"at", at>>
    ELSE IF at \notin Dirs(files) THEN <<"nowhere">>
    ELSE IF Head(rest) = <<"..">>
         THEN (IF at = <<>> THEN <<"nowhere">> ELSE Walk(files, SubSeq(at, 1, Len(at) - 1), Tail(rest)))
         ELSE LET to == Append(at, Head(rest))
              IN  IF to \in files \cup Dirs(files) THEN Walk(files, to, Tail(rest)) ELSE <<"nowhere">>

\* path.exists(): true of a file and of a directory
Exists(files, path) == Walk(files, <<>>, path) # <<"nowhere">>

\* path.stem and path.suffix of the last segment
Name(path) == path[Len(path)]
Suffixes == {".ipynb", ".png", ".yaml"}
HasSuffix(path) == Len(Name(path)) > 1 /\ Name(path)[Len(Name(path))] \in Suffixes
Stem(path) == IF HasSuffix(path) THEN SubSeq(Name(path), 1, Len(Name(path)) - 1) ELSE Name(path)

\* stem.startswith('_') and stem.endswith('-checkpoint')
StartsWithUnderscore(stem) == stem # <<>> /\ stem[1] = "_"
EndsWithCheckpoint(stem) == stem # <<>> /\ stem[Len(stem)] = "-checkpoint"

\* Path('notebooks').rglob('*.ipynb'): the files below notebooks whose name ends in .ipynb
Rglob(files) ==
    {f \in files : /\ Len(f) > 1
                   /\ SubSeq(f, 1, 1) = NOTEBOOKS_PATH
                   /\ Name(f)[Len(Name(f))] = ".ipynb"}

\* The result of a check: Passed, or the exception that ends the run.
Passed == [kind |-> "none", message |-> <<>>, line |-> 0]
Failure(kind, message, line) == [kind |-> kind, message |-> message, line |-> line]

\* check_exists(path)
CheckExists(files, str) ==
    LET path == NOTEBOOKS_PATH \o PathOf(Strip(str))
    IN  IF ~Exists(files, path)
        THEN Failure("AssertionError", <<"No file", path>>, 12)
        ELSE Passed

ResourceKeys == {"title", "description", "link", "author"}

\* a check_resource that lets every key through
CheckResourceAnyKey(resource) == Passed

\* check_resource(resource); of two foreign keys the first in the order of
\* the dictionary is named, here some one of them
CheckResource(resource) ==
    LET foreign == DOMAIN resource \ ResourceKeys
    IN  IF foreign # {}
        THEN Failure("AssertionError", <<"not in resource", CHOOSE key \in foreign : TRUE>>, 20)
        ELSE Passed

\* the first failure of two checks that run one after the other
Then(first, second) == IF first.kind # "none" THEN first ELSE second

\* the first failure of a loop, results being the result of each turn in order
ForEach(results) ==
    LET failing == {i \in DOMAIN results : results[i].kind # "none"}
    IN  IF failing = {} THEN Passed
        ELSE results[CHOOSE i \in failing : \A j \in failing : i <= j]

\* check_page(page)
CheckPage(files, page) ==
    Then(CheckExists(files, page.url \o <<".ipynb">>),
         CheckExists(files, page.previewImgUrl))

CourseTypes == {"chapter", "course", "summer-school"}
OverviewKeys == {"description", "thumbnailUrl", "prerequisites",
                 "externalRecommendedReadings", "externalRecommendedReadingsPreamble"}

\* check_course(course)
CheckCourse(files, course) ==
    LET overview == course.overviewInfo
    IN  Then(IF course.type \notin CourseTypes THEN Failure("AssertionError", <<>>, 30) ELSE Passed,
        Then(IF "short" \notin DOMAIN overview.description THEN Failure("KeyError", <<"short">>, 32)
             ELSE IF "long" \notin DOMAIN overview.description THEN Failure("KeyError", <<"long">>, 32)
             ELSE Passed,
        Then(CheckExists(files, overview.thumbnailUrl),
        Then(IF DOMAIN overview \subseteq OverviewKeys THEN Passed ELSE Failure("AssertionError", <<>>, 35),
        Then(ForEach([j \in DOMAIN course.sections |-> CheckPage(files, course.sections[j])]),
        Then(IF "externalRecommendedReadings" \in DOMAIN overview
             THEN ForEach([k \in DOMAIN overview.externalRecommendedReadings |->
                              CheckResource(overview.externalRecommendedReadings[k])]) ELSE Passed,
             IF "prerequisites" \in DOMAIN overview
             THEN ForEach([k \in DOMAIN overview.prerequisites |->
                              CheckResource(overview.prerequisites[k])]) ELSE Passed))))))

\* referenced_notebooks: Path(f"notebooks/{section['url']}.ipynb") for every
\* section of every course
RECURSIVE ReferencedNotebooks(_)
ReferencedNotebooks(manifest) ==
    IF manifest = <<>> THEN {}
    ELSE {PathOf(<<"notebooks", Slash>> \o Head(manifest).sections[i].url \o <<".ipynb">>) :
              i \in DOMAIN Head(manifest).sections}
         \cup ReferencedNotebooks(Tail(manifest))

\* a loop body that knows no exempt name
CheckNotebookNoExemption(referenced_notebooks, notebook) ==
    IF notebook \notin referenced_notebooks
    THEN Failure("AssertionError", <<"no reference", notebook>>, 68)
    ELSE Passed

\* the body of the loop over rglob for one notebook
CheckNotebook(referenced_notebooks, notebook) ==
    IF notebook \notin referenced_notebooks
    THEN IF StartsWithUnderscore(Stem(notebook)) THEN Passed
         ELSE IF EndsWithCheckpoint(Stem(notebook)) THEN Passed
         ELSE Failure("AssertionError", <<"no reference", notebook>>, 68)
    ELSE Passed

\* The manifests and the trees the validator is run on.
MaxCourses == 2

UrlA == <<"ch", Slash, "a">>
UrlB == <<"b">>
UrlASlash == <<Slash, "ch", Slash, "a">>
UrlBViaParent == <<"ch", Slash, "..", Slash, "b">>
ImgP == <<"img", Slash, "p", ".png">>
ImgDir == <<"img">>
EmptyString == <<>>

FileA == NOTEBOOKS_PATH \o <<<<"ch">>, <<"a", ".ipynb">>>>
FileB == NOTEBOOKS_PATH \o <<<<"b", ".ipynb">>>>
FileDraft == NOTEBOOKS_PATH \o <<<<"ch">>, <<"_", "b", ".ipynb">>>>
FileCheckpoint == NOTEBOOKS_PATH \o <<<<"ch">>, <<"a", "-checkpoint", ".ipynb">>>>
FileP == NOTEBOOKS_PATH \o <<<<"img">>, <<"p", ".png">>>>

\* toc.yaml is there, the run has opened it; every other file may be missing
Trees == {{TOC_PATH} \cup files : files \in SUBSET {FileA, FileB, FileDraft, FileCheckpoint, FileP}}

Page(url, previewImgUrl) == [url |-> url, previewImgUrl |-> previewImgUrl]
Description == [short |-> "short", long |-> "long"]
Overview(thumbnailUrl) == [description |-> Description, thumbnailUrl |-> thumbnailUrl]

\* a chapter with one page
CourseIntro ==
    [type |-> "chapter", overviewInfo |-> Overview(ImgP), sections |-> <<Page(UrlA, ImgP)>>]
\* a course with two pages and a prerequisite
CourseTwoPages ==
    [type |-> "course",
     overviewInfo |-> [description |-> Description, thumbnailUrl |-> ImgP,
                       prerequisites |-> <<[title |-> "t", link |-> "l"]>>],
     sections |-> <<Page(UrlB, ImgP), Page(UrlA, ImgP)>>]
\* a type that is not one of the three
CourseMistyped ==
    [type |-> "book", overviewInfo |-> Overview(ImgP), sections |-> <<Page(UrlB, ImgP)>>]
\* a recommended reading with the key url
CourseReadings ==
    [type |-> "chapter",
     overviewInfo |-> [description |-> Description, thumbnailUrl |-> ImgP,
                       externalRecommendedReadings |->
                           <<[title |-> "t", author |-> "a"], [title |-> "t", url |-> "u"]>>],
     sections |-> <<Page(UrlB, ImgP)>>]
\* an overview key that is not one of the five
CourseNotes ==
    [type |-> "chapter",
     overviewInfo |-> [description |-> Description, thumbnailUrl |-> ImgP, notes |-> "n"],
     sections |-> <<Page(UrlA, ImgP)>>]
\* a page url that reaches its notebook through '..'
CourseDetour ==
    [type |-> "chapter", overviewInfo |-> Overview(ImgP), sections |-> <<Page(UrlBViaParent, ImgP)>>]
\* a thumbnail that is a directory, a preview that is the empty string, a url
\* with a leading slash, a prerequisite without keys
CourseLoose ==
    [type |-> "summer-school",
     overviewInfo |-> [description |-> Description, thumbnailUrl |-> ImgDir,
                       prerequisites |-> << <<>> >>, externalRecommendedReadings |-> <<>>],
     sections |-> <<Page(UrlASlash, EmptyString)>>]
\* a description without 'long'
CourseNoLong ==
    [type |-> "chapter",
     overviewInfo |-> [description |-> [short |-> "short"], thumbnailUrl |-> ImgP],
     sections |-> <<Page(UrlA, ImgP)>>]

Courses == {CourseIntro, CourseTwoPages, CourseMistyped, CourseReadings, CourseNotes,
            CourseDetour, CourseLoose, CourseNoLong}
Manifests == UNION {[1..n -> Courses] : n \in 0..MaxCourses}

Running == [status |-> "running", error |-> Passed]

\* the run up to `for course in toc`
InitToc ==
    /\ toc \in Manifests
    /\ tree \in Trees
    /\ pc = "courses"
    /\ todo = [course |-> 1, referenced_notebooks |-> {}, notebooks |-> {}]
    /\ outcome = Running
    /\ lastEvent = <<"toc.py">>
    /\ raised = "none"
    /\ puzzle = NotInUse /\ initializer = NotInUse /\ program = NotInUse
    /\ required_gates = NotInUse /\ bloch = NotInUse /\ success = NotInUse
    /\ gate = NotInUse /\ qubit = NotInUse /\ action = NotInUse
    /\ grid = NotInUse /\ drawn = NotInUse

\* one turn of `for course in toc: check_course(course)`
CourseStep ==
    /\ pc = "courses"
    /\ todo.course <= Len(toc)
    /\ \E result \in {CheckCourse(tree, toc[todo.course])} :
        IF result.kind = "none"
        THEN /\ todo' = [todo EXCEPT !.course = todo.course + 1]
             /\ UNCHANGED <<pc, outcome>>
        ELSE /\ outcome' = [status |-> "failed", error |-> result]
             /\ pc' = "done"
             /\ UNCHANGED todo
    /\ lastEvent' = <<"check_course", todo.course>>
    /\ UNCHANGED <<toc, tree, raised, grid, drawn, gameData>>

\* the list referenced_notebooks is built and rglob lists the notebooks
Reference ==
    /\ pc = "courses"
    /\ todo.course > Len(toc)
    /\ todo' = [todo EXCEPT !.referenced_notebooks = ReferencedNotebooks(toc),
                            !.notebooks = Rglob(tree)]
    /\ pc' = "scan"
    /\ lastEvent' = <<"referenced_notebooks">>
    /\ UNCHANGED <<toc, tree, outcome, raised, grid, drawn, gameData>>

\* one turn of the loop over rglob, which lists the notebooks in any order
ScanStep ==
    /\ pc = "scan"
    /\ \E notebook \in todo.notebooks :
        /\ \E result \in {CheckNotebook(todo.referenced_notebooks, notebook)} :
            IF result.kind = "none"
            THEN /\ todo' = [todo EXCEPT !.notebooks = todo.notebooks \ {notebook}]
                 /\ UNCHANGED <<pc, outcome>>
            ELSE /\ outcome' = [status |-> "failed", error |-> result]
                 /\ pc' = "done"
                 /\ UNCHANGED todo
        /\ lastEvent' = <<"notebook", notebook>>
    /\ UNCHANGED <<toc, tree, raised, grid, drawn, gameData>>

\* the run ends without an exception
Exit ==
    /\ pc = "scan"
    /\ todo.notebooks = {}
    /\ outcome' = [status |-> "passed", error |-> Passed]
    /\ pc' = "done"
    /\ lastEvent' = <<"exit">>
    /\ UNCHANGED <<toc, tree, todo, raised, grid, drawn, gameData>>

NextToc ==
    \/ CourseStep
    \/ Reference
    \/ ScanStep
    \/ Exit

SpecToc == InitToc /\ [][NextToc]_vars

-----------------------------------------------------------------------------
(* Properties of pauli_grid, checked under SpecGrid.                       *)

\* the three filters of the visibility rule, for the arguments args of an
\* update_grid call
ThreeFilters(args, pauli) ==
    /\ \A i \in DOMAIN args.hidden : pauli[args.hidden[i] + 1] = "I"
    /\ (args.qubit \/ (pauli[1] \in {"I", "Z"} /\ pauli[2] \in {"I", "Z"}))
    /\ (args.corr \/ pauli[1] = "I" \/ pauli[2] = "I")

\* the keys of the expectation map an update_grid call with arguments args
\* draws from: those of its rho argument when a non-empty one is given,
\* otherwise those get_rho computes, one for every box
KeysInUse(args) ==
    IF args.rho.none \/ DOMAIN args.rho.map = {}
    THEN Box(grid.y_boxes)
    ELSE DOMAIN args.rho.map

RhoOfKet00(y_boxes) ==
    [p \in Box(y_boxes) |-> IF p \in {ZI, IZ, ZZ} THEN <<Scale, 0>> ELSE <<0, 0>>]

\* C6: with no gate in the circuit, get_rho leaves an expectation map whose
\* keys are the boxes of the grid and whose values are 1 for ZI, IZ and ZZ
\* and 0 for every other Pauli string, with and without the Y boxes; the
\* constructor installs the same map.
C6_GetRhoOfEmptyCircuit ==
    /\ lastEvent = <<"pauli_grid">> => grid.rho = RhoOfKet00(grid.y_boxes)
    /\ (lastEvent = <<"get_rho">> /\ grid.qc = <<>>) =>
          /\ DOMAIN grid.rho = Box(grid.y_boxes)
          /\ grid.rho = RhoOfKet00(grid.y_boxes)
          /\ grid.rho = InitRho(grid.y_boxes)

\* C6 witness: get_rho has run on the empty circuit of a grid with Y boxes,
\* after an update_grid call had replaced the constructor's map.
C6_Witness ==
    /\ lastEvent = <<"get_rho">>
    /\ grid.qc = <<>>
    /\ grid.y_boxes
    /\ drawn.unhidden # {}

-----------------------------------------------------------------------------
(* Properties of tests/passes/toc.py, checked under SpecToc.               *)

\* the notebook files of the tree: below notebooks, with a name ending in .ipynb
NotebookFiles ==
    {f \in tree : Len(f) > 1 /\ f[1] = <<"notebooks">> /\ f[Len(f)][Len(f[Len(f)])] = ".ipynb"}

\* the file is what some page entry of some course spells: notebooks/<url>.ipynb,
\* compared as Paths (repeated slashes and '.' segments do not count)
ReferencedByAPage(f) ==
    \E i \in DOMAIN toc : \E j \in DOMAIN toc[i].sections :
        PathOf(<<"notebooks", Slash>> \o toc[i].sections[j].url \o <<".ipynb">>) = f

\* the stem of the notebook starts with '_' or ends with '-checkpoint'
ExemptName(f) ==
    LET name == f[Len(f)]
        stem == SubSeq(name, 1, Len(name) - 1)
    IN  stem # <<>> /\ (stem[1] = "_" \/ stem[Len(stem)] = "-checkpoint")

\* C8: a run that passes has left no notebook of the tree both unreferenced
\* and without an exempt name (the validator fails when there is one), and
\* the unreferenced-notebook failure always names a notebook of the tree
\* that no page entry references and whose stem neither starts with '_' nor
\* ends with '-checkpoint'.
C8_UnreferencedNotebooks ==
    /\ outcome.status = "passed" =>
          \A f \in NotebookFiles : ReferencedByAPage(f) \/ ExemptName(f)
    /\ (outcome.status = "failed" /\ outcome.error.line = 68) =>
          /\ outcome.error.kind = "AssertionError"
          /\ outcome.error.message[1] = "no reference"
          /\ outcome.error.message[2] \in NotebookFiles
          /\ ~ReferencedByAPage(outcome.error.message[2])
          /\ ~ExemptName(outcome.error.message[2])

\* C8 witness: the run has failed on the unreferenced b.ipynb, in a tree that
\* also holds a referenced notebook and one of each exempt form.
C8_Witness ==
    /\ outcome.status = "failed"
    /\ outcome.error.message = <<"no reference", FileB>>
    /\ {FileA, FileDraft, FileCheckpoint} \subseteq tree
    /\ ReferencedByAPage(FileA)

\* the resources listed by a course
ResourcesOf(course) ==
    LET overview == course.overviewInfo
        listed(key) == IF key \in DOMAIN overview
                       THEN {overview[key][k] : k \in DOMAIN overview[key]} ELSE {}
    IN  listed("externalRecommendedReadings") \cup listed("prerequisites")

AllowedResourceKeys == {"title", "description", "link", "author"}

IsExistingFile(str) ==
    LET at == Walk(tree, <<>>, <<<<"notebooks">>>> \o PathOf(Strip(str)))
    IN  at # <<"nowhere">> /\ at[2] \in tree

\* the strings a course must have a file for
RequiredFiles(course) ==
    {course.overviewInfo.thumbnailUrl}
    \cup {course.sections[j].url \o <<".ipynb">> : j \in DOMAIN course.sections}
    \cup {course.sections[j].previewImgUrl : j \in DOMAIN course.sections}

\* C10 as claimed: every course whose check has passed has an existing file
\* for its thumbnailUrl and for url + '.ipynb' and previewImgUrl of each of
\* its pages, and the missing-file failure names a path of the course being
\* checked that does not exist.
C10_PathsAreExistingFiles ==
    /\ \A i \in DOMAIN toc :
          (i < todo.course \/ outcome.status = "passed") =>
              \A str \in RequiredFiles(toc[i]) : IsExistingFile(str)
    /\ (outcome.status = "failed" /\ outcome.error.line = 12) =>
          /\ outcome.error.message[1] = "No file"
          /\ \E str \in RequiredFiles(toc[todo.course]) :
                /\ outcome.error.message[2] = <<<<"notebooks">>>> \o PathOf(Strip(str))
                /\ ~IsExistingFile(str)

\* C11 as claimed: whatever the violation, the run fails with an
\* AssertionError whose message names the offending path or key.
C11_EveryViolationIsADescribedAssertion ==
    outcome.status = "failed" =>
        /\ outcome.error.kind = "AssertionError"
        /\ Len(outcome.error.message) = 2

\* the constraints on a course, each stated on the manifest and the tree
TypeViolated(course) == course.type \notin {"chapter", "course", "summer-school"}
DescriptionViolated(course) ==
    \E key \in {"short", "long"} : key \notin DOMAIN course.overviewInfo.description
OverviewKeyViolated(course) ==
    \E key \in DOMAIN course.overviewInfo :
        key \notin {"description", "thumbnailUrl", "prerequisites",
                    "externalRecommendedReadings", "externalRecommendedReadingsPreamble"}
FileViolated(course) == \E str \in RequiredFiles(course) : ~IsExistingFile(str)
ResourceViolated(course) ==
    \E resource \in ResourcesOf(course) : ~(DOMAIN resource \subseteq AllowedResourceKeys)
CourseViolated(course) ==
    \/ TypeViolated(course)
    \/ DescriptionViolated(course)
    \/ OverviewKeyViolated(course)
    \/ FileViolated(course)
    \/ ResourceViolated(course)
NotebookViolated == \E f \in NotebookFiles : ~ReferencedByAPage(f) /\ ~ExemptName(f)

\* the failure at the given line is the first violated constraint of the
\* course, in the order in which check_course looks at them
FirstOfCourse(course, line) ==
    CASE line = 30 -> TypeViolated(course)
      [] line = 32 -> ~TypeViolated(course) /\ DescriptionViolated(course)
      [] line = 12 -> /\ ~TypeViolated(course) /\ ~DescriptionViolated(course)
                      /\ FileViolated(course)
                      /\ (IsExistingFile(course.overviewInfo.thumbnailUrl)
                             => ~OverviewKeyViolated(course))
      [] line = 35 -> /\ ~TypeViolated(course) /\ ~DescriptionViolated(course)
                      /\ IsExistingFile(course.overviewInfo.thumbnailUrl)
                      /\ OverviewKeyViolated(course)
      [] line = 20 -> /\ ~TypeViolated(course) /\ ~DescriptionViolated(course)
                      /\ ~OverviewKeyViolated(course) /\ ~FileViolated(course)
                      /\ ResourceViolated(course)
      [] OTHER -> FALSE

\* the state part of C12: the courses already left behind, and all of them
\* once the scan runs, violate nothing; a failure is the first violated
\* constraint; the run that is over has passed exactly if nothing is violated
OnePassUpToFirstViolation ==
    /\ \A i \in DOMAIN toc : i < todo.course => ~CourseViolated(toc[i])
    /\ pc = "scan" => todo.course > Len(toc)
    /\ (pc = "scan" \/ outcome.status = "passed") =>
          \A i \in DOMAIN toc : ~CourseViolated(toc[i])
    /\ outcome.status = "failed" =>
          IF outcome.error.line = 68
          THEN todo.course > Len(toc) /\ NotebookViolated
          ELSE todo.course \in DOMAIN toc
               /\ FirstOfCourse(toc[todo.course], outcome.error.line)
    /\ pc = "done" =>
          (outcome.status = "passed"
              <=> ((\A i \in DOMAIN toc : ~CourseViolated(toc[i])) /\ ~NotebookViolated))

\* C12 as claimed: the validator makes one pass that stops at the first
\* violated constraint (no check runs once the run has failed or passed, and
\* the scan for unreferenced notebooks starts only when every course has been
\* checked), and the run ends with success if and only if no constraint is
\* violated.
C12_OnePassStopsAtFirstViolation ==
    /\ []OnePassUpToFirstViolation
    /\ [][outcome.status = "running" /\ pc # "done"]_vars

-----------------------------------------------------------------------------
(* Properties of run_game, checked under Spec.                             *)

\* the three controls show the single option 'Success!'
Declared ==
    /\ gate.options = <<Success>>
    /\ qubit.options = <<Success>>
    /\ action.options = <<Success>>

\* some control shows the single option 'Success!'
PartlyDeclared ==
    \/ gate.options = <<Success>>
    \/ qubit.options = <<Success>>
    \/ action.options = <<Success>>

\* every target Pauli of success_condition has a computed expectation value
\* within eps = 0.1 of its target, for the circuit the grid holds now
TargetsWithinEps ==
    LET rho == GetRho(grid.y_boxes, grid.qc)
    IN  \A i \in DOMAIN puzzle.success_condition :
            LET pauli == puzzle.success_condition[i][1]
                target == puzzle.success_condition[i][2]
            IN  /\ pauli \in DOMAIN rho
                /\ NAbsLess(NSub(Num(target), rho[pauli]), 1, 10)

\* every required-gate counter of every qubit entry is zero
AllCountersZero ==
    \A q \in QubitKeys : \A g \in DOMAIN required_gates[q] : required_gates[q][g] = 0

\* the last event was a press of 'Apply operation' whose given_action ran to its end
Confirmed ==
    /\ lastEvent = <<"action", ApplyOperation>>
    /\ raised = "none"
    /\ action.value # ApplyOperation

\* C1: every required-gate counter is non-negative, and no step of run_game
\* (gate, qubit or confirm selection) raises a counter: each step leaves a
\* counter as it was or lowers it.
C1_CountersNeverRiseNorGoNegative ==
    [][\A q \in QubitKeys : \A g \in DOMAIN required_gates[q] :
          /\ required_gates[q][g] >= 0
          /\ required_gates'[q][g] <= required_gates[q][g]
          /\ required_gates'[q][g] >= 0]_vars

\* C1 witness: the counter of cx, which started at one, has been counted
\* down to zero by a first cx and left at zero by a second one.
C1_Witness ==
    /\ puzzle = PuzzleBell
    /\ required_gates["1"]["cx"] = 0
    /\ Len(program) = 3
    /\ program[2].name = "cx"
    /\ program[3].name = "cx"

C3_FrozenAfterSuccess ==
    [][success => /\ grid'.qc = grid.qc
                  /\ program' = program
                  /\ required_gates' = required_gates
                  /\ bloch' = bloch
                  /\ success']_vars

\* C3 witness: success has been declared and the user has pressed a button
\* of the gate control since.
C3_Witness ==
    /\ success
    /\ Declared
    /\ lastEvent[1] = "gate"

\* C4 as claimed: a confirm that ends with an exception leaves the circuit,
\* the recorded program and the required-gate counters as they were.
C4_FailedConfirmChangesNothing ==
    [][(lastEvent' = <<"action", ApplyOperation>> /\ raised' # "none")
          => /\ grid'.qc = grid.qc
             /\ program' = program
             /\ required_gates' = required_gates]_vars

\* the gate names get_command knows
Vocabulary == {"x", "y", "z", "h", "ry(pi/4)", "ry(-pi/4)", "rx(pi/4)", "rx(-pi/4)",
               "cz", "cx", "swap"}

\* the entries of the initializer list before the first one outside the vocabulary
GoodPrefix ==
    LET bad == {i \in DOMAIN puzzle.initialize : puzzle.initialize[i][1] \notin Vocabulary}
    IN  IF bad = {} THEN Len(puzzle.initialize)
        ELSE (CHOOSE i \in bad : \A j \in bad : i <= j) - 1

\* entry i of the initializer list has been applied and recorded
AppliedAndRecorded(i) ==
    LET entry == puzzle.initialize[i]
        target == IF entry[2] = "0" THEN 0 ELSE 1
    IN  /\ grid.qc[i].name = entry[1]
        /\ grid.qc[i].qubits[Len(grid.qc[i].qubits)] = target
        /\ initializer[i].name = entry[1]
        /\ initializer[i].qubits[Len(initializer[i].qubits)] = puzzle.qubit_names[IF target = 0 THEN "0" ELSE "1"]

\* C7: the constructor fails exactly when the initializer list holds a gate
\* name outside the vocabulary, at the first such entry (the entries before
\* it applied, none after it); a list inside the vocabulary is applied whole,
\* in order, with one recorded initializer entry per gate.
C7_InitializerVocabulary ==
    /\ Len(initializer) <= GoodPrefix
    /\ \A i \in 1..Len(initializer) : AppliedAndRecorded(i)
    /\ pc = "construction failed" =>
          /\ GoodPrefix < Len(puzzle.initialize)
          /\ Len(initializer) = GoodPrefix
          /\ Len(grid.qc) = GoodPrefix
    /\ pc = "playing" =>
          /\ GoodPrefix = Len(puzzle.initialize)
          /\ Len(initializer) = Len(puzzle.initialize)
          /\ Len(grid.qc) = Len(initializer) + Len(program)
    /\ (GoodPrefix < Len(puzzle.initialize) /\ Len(initializer) = GoodPrefix) =>
          ~ENABLED Construct

\* C7 witness: the constructor has failed on the second entry, the first applied.
C7_Witness ==
    /\ pc = "construction failed"
    /\ Len(initializer) = 1
    /\ Len(puzzle.initialize) = 3

\* the gate is permitted for the qubit the value of the qubit control stands
\* for: '0' or '1' by its display name, 'both' by 'not required'
Permitted(g, qubitValue) ==
    \/ qubitValue = NotRequired /\ g \in DOMAIN puzzle.allowed_gates["both"]
    \/ \E q \in {"0", "1"} :
          qubitValue = puzzle.qubit_names[q] /\ g \in DOMAIN puzzle.allowed_gates[q]

\* the operation is the gate chosen in the gate control, applied to the
\* qubit chosen in the qubit control (qubit '1' for 'not required')
IsChosen(operation, g, qubitValue) ==
    /\ operation.name = QGate(g)
    /\ operation.qubits[Len(operation.qubits)] =
          IF qubitValue = NotRequired THEN puzzle.qubit_names["1"] ELSE qubitValue

\* C13: whatever the sequence of gate, qubit and confirm selections, a step
\* that appends to the circuit appends one operation, the gate shown in the
\* gate control on the qubit shown in the qubit control, and that gate is in
\* allowed_gates[q] for the chosen qubit q or in allowed_gates['both'] with
\* the qubit 'not required'; a counter changes only for a permitted gate; a
\* confirm with no valid qubit selected changes neither circuit, program,
\* Bloch selection nor any counter.
C13_OnlyPermittedGatesAreApplied ==
    [][pc = "playing" =>
        /\ (program' # program \/ grid'.qc # grid.qc) =>
             /\ Len(program') = Len(program) + 1
             /\ Len(grid'.qc) = Len(grid.qc) + 1
             /\ Permitted(gate.value, qubit.value)
             /\ IsChosen(program'[Len(program')], gate.value, qubit.value)
        /\ required_gates' # required_gates => Permitted(gate.value, qubit.value)
        /\ (lastEvent' = <<"action", ApplyOperation>>
               /\ qubit.value \in {"", ChooseQubit(puzzle.vi), Success}) =>
             /\ program' = program
             /\ grid'.qc = grid.qc
             /\ bloch' = bloch
             /\ required_gates' = required_gates]_vars

\* C13 witness: after a first operation has been applied, the gate control
\* shows a gate and the confirm control is still enabled from an earlier
\* choice of qubit, while the qubit control is back at its prompt: the gate
\* was changed after the qubit had been chosen.
C13_Witness ==
    /\ pc = "playing"
    /\ Len(program) >= 1
    /\ gate.value \in {"h", "cx"}
    /\ qubit.value = ChooseQubit(puzzle.vi)
    /\ action.options = <<MakeItHappen, ApplyOperation>>

\* the number of uses counted down by the step, over all counters
RECURSIVE SumOver(_, _)
SumOver(f, keys) ==
    IF keys = {} THEN 0
    ELSE LET k == CHOOSE k \in keys : TRUE
         IN  f[k] + SumOver(f, keys \ {k})

CountersTotal(required) ==
    SumOver([q \in QubitKeys |-> SumOver(required[q], DOMAIN required[q])], QubitKeys)

\* the three controls are back at the start of a choice
ControlsReset ==
    /\ gate.value = ChooseGate
    /\ qubit = NoControl
    /\ action = NoControl

\* C14 as claimed: only a confirmation (a press of 'Apply operation')
\* changes circuit, program, counters or Bloch selection; it applies at
\* most one gate, exactly one when a circuit gate and a valid qubit are
\* selected, and lowers the counters by at most one in all; and it has run
\* to completion when the step is over: nothing was raised, and the controls
\* are reset or show 'Success!'.
C14_ConfirmCyclesDoNotOverlap ==
    [][pc = "playing" =>
        /\ (grid'.qc # grid.qc \/ program' # program
              \/ required_gates' # required_gates \/ bloch' # bloch) =>
             lastEvent' = <<"action", ApplyOperation>>
        /\ Len(grid'.qc) <= Len(grid.qc) + 1
        /\ CountersTotal(required_gates) - CountersTotal(required_gates') \in {0, 1}
        /\ lastEvent' = <<"action", ApplyOperation>> =>
             /\ raised' = "none"
             /\ Declared' \/ ControlsReset'
             /\ (Permitted(gate.value, qubit.value) /\ QGate(gate.value) \in Vocabulary) =>
                   Len(grid'.qc) = Len(grid.qc) + 1]_vars

\* the qubit '0' or '1' a display name stands for
QubitOfName(name) ==
    IF name = puzzle.qubit_names["0"] THEN 0 ELSE IF name = puzzle.qubit_names["1"] THEN 1 ELSE -1

\* the recorded line names the gate and the qubits of the operation
Mirrors(line, operation) ==
    /\ line.name = operation.name
    /\ Len(line.qubits) = Len(operation.qubits)
    /\ \A k \in DOMAIN line.qubits : QubitOfName(line.qubits[k]) = operation.qubits[k]

\* self.initializer followed by self.program has one entry per operation of
\* the grid circuit, in the same order, for the same gate and qubits
ListsMirrorCircuit ==
    LET recorded == initializer \o program
    IN  /\ Len(recorded) = Len(grid.qc)
        /\ \A i \in DOMAIN recorded : Mirrors(recorded[i], grid.qc[i])

\* get_circuit(use_initializer=True) returns the circuit the grid holds
ReplayIsCircuit ==
    LET replayed == GetCircuit(puzzle.qubit_names, initializer, program, TRUE)
    IN  replayed.raised = "none" /\ replayed.qc = grid.qc

\* a confirm of 'bloch' with a valid qubit toggles the Bloch selection and
\* leaves circuit and program alone
BlochConfirmOnlyToggles ==
    (/\ pc = "playing"
     /\ lastEvent' = <<"action", ApplyOperation>>
     /\ gate.value = "bloch"
     /\ Permitted(gate.value, qubit.value)) =>
        LET q01 == Q01(puzzle.qubit_names, qubit.value)
        IN  /\ bloch' = IF bloch = q01 THEN None ELSE q01
            /\ program' = program
            /\ grid'.qc = grid.qc

\* C15 as claimed: in every state of run_game the two recorded lists mirror
\* the grid circuit entry by entry, get_circuit(use_initializer=True) replays
\* the circuit the grid holds, and a 'bloch' confirm only toggles the Bloch
\* selection (the same qubit again turns it off), adding nothing to circuit
\* or program.
C15_RecordedListsReplayTheCircuit ==
    /\ [](ListsMirrorCircuit /\ (pc = "playing" => ReplayIsCircuit))
    /\ [][BlochConfirmOnlyToggles]_vars

=============================================================================
